---- MODULE Spec2Model ----
(***************************************************************************)
(* A model of the two scraping scripts of the repository:                  *)
(*   data-scripts/scrape/scraper.py                 (menu flattening and   *)
(*                                                   the clean-up pipeline)*)
(*   data-scripts/scrape/scrape_area_restaurants.py (the paginated search) *)
(*                                                                         *)
(* Python strings are TLA+ strings; characters are strings of length one.  *)
(* A nested JSON value is a record [tag, val, kids].  A pandas DataFrame   *)
(* is a record [columns, rows]: the column labels (duplicates are          *)
(* possible) and the rows, each with its index label and its cells.        *)
(***************************************************************************)
EXTENDS Integers, Sequences, FiniteSets, TLC

VARIABLES
    col,          \* clean_column_name: the argument
    ret_col,      \* clean_column_name: [done, val], the returned name
    d,            \* flatten_dict: the argument (a nested record)
    ret_flat,     \* flatten_dict: [done, val], the returned flat record
    batch,        \* save_menu: the flat records the DataFrame is built from
    ret_menu,     \* process_menu_data: [done, val], the outcome of the call
    max_pages,    \* scrape_restaurants: the argument
    page,         \* scrape_restaurants: the loop variable (0 before the loop)
    response,     \* scrape_restaurants: the outcome of the last request
    requests,     \* the payloads posted so far, in order
    all_restaurants, \* scrape_restaurants: the records collected
    pc,           \* scrape_restaurants: "loop" or "returned"
    ret_scrape    \* scrape_restaurants: [done, val], the returned list

menu_vars == <<col, ret_col, d, ret_flat, batch, ret_menu>>
scrape_vars == <<max_pages, page, response, requests, all_restaurants, pc, ret_scrape>>
vars == <<menu_vars, scrape_vars>>

(***************************************************************************)
(* Bounds of the model.                                                    *)
(***************************************************************************)
MaxTokens == 3      \* a column name is built from at most this many tokens
MaxNodes == 4       \* a nested record has at most this many nodes
MaxRows == 3        \* a batch has at most this many flat records
MaxPages == 3       \* max_pages is at most this
MaxResults == 2     \* a page of results has at most this many entries

(***************************************************************************)
(* Strings.                                                                *)
(***************************************************************************)
Char(s, i) == SubSeq(s, i, i)

Digits == <<"0", "1", "2", "3", "4", "5", "6", "7", "8", "9">>

IsDigit(c) == \E i \in 1..10 : Digits[i] = c

\* the number of characters of the longest all-digit suffix of s
RECURSIVE TrailingDigits(_)
TrailingDigits(s) ==
    IF Len(s) = 0 \/ ~IsDigit(Char(s, Len(s))) THEN 0
    ELSE 1 + TrailingDigits(SubSeq(s, 1, Len(s) - 1))

\* re.sub(r'_\d+$', '', s): the only place the pattern can match is the
\* underscore right before the longest all-digit suffix
re_sub_numeric_suffix(s) ==
    LET k == TrailingDigits(s)
        n == Len(s)
    IN  IF k >= 1 /\ n - k >= 1 /\ Char(s, n - k) = "_"
        THEN SubSeq(s, 1, n - k - 1)
        ELSE s

\* s.replace(old, new): every non-overlapping occurrence, left to right
RECURSIVE str_replace(_, _, _)
str_replace(s, old, new) ==
    IF Len(s) < Len(old) THEN s
    ELSE IF SubSeq(s, 1, Len(old)) = old
         THEN new \o str_replace(SubSeq(s, Len(old) + 1, Len(s)), old, new)
         ELSE Char(s, 1) \o str_replace(Tail(s), old, new)

\* str(i) of a natural number
RECURSIVE str(_)
str(i) == IF i < 10 THEN Digits[i + 1] ELSE str(i \div 10) \o Digits[(i % 10) + 1]

(***************************************************************************)
(* scraper.py: clean_column_name                                           *)
(***************************************************************************)
clean_column_name(c) ==
    LET c1 == re_sub_numeric_suffix(c)
        c2 == str_replace(c1, "item_", "")
    IN  IF c2 = "name" THEN "item_name" ELSE c2

(***************************************************************************)
(* scraper.py: flatten_dict                                                *)
(*                                                                         *)
(* A node is [tag |-> "scalar" | "dict" | "list", val, kids].  kids is the *)
(* sequence of <<key, child>> pairs of a dict in insertion order, or of    *)
(* <<"", element>> pairs of a list.  A dict of Python is modelled by the   *)
(* sequence of its (key, value) pairs in insertion order; the values of   *)
(* the flat record are the nodes themselves.                               *)
(***************************************************************************)
Scalar(v) == [tag |-> "scalar", val |-> v, kids |-> <<>>]
Dict(kids) == [tag |-> "dict", val |-> "", kids |-> kids]
List(kids) == [tag |-> "list", val |-> "", kids |-> kids]

KeysOf(items) == {items[i][1] : i \in 1..Len(items)}

\* dict(items): a later pair with a key already present replaces the value
\* and keeps the position of the first
RECURSIVE dict_of(_, _)
dict_of(acc, items) ==
    IF items = <<>> THEN acc
    ELSE LET k == items[1][1]
             v == items[1][2]
             next == IF k \in KeysOf(acc)
                     THEN [i \in 1..Len(acc) |->
                              IF acc[i][1] = k THEN <<k, v>> ELSE acc[i]]
                     ELSE Append(acc, <<k, v>>)
         IN  dict_of(next, Tail(items))

\* list_items with the elements counted from one
RECURSIVE list_items_from_one(_, _, _)
list_items_from_one(elems, new_key, i) ==
    IF elems = <<>> THEN <<>>
    ELSE LET item == elems[1][2]
             rest == list_items_from_one(Tail(elems), new_key, i + 1)
         IN  IF item.tag \in {"dict", "list"}
             THEN rest
             ELSE <<<<new_key \o "_" \o str(i + 1), item>>>> \o rest

\* list_items without the skip of the elements that are mappings or lists
RECURSIVE list_items_no_skip(_, _, _)
list_items_no_skip(elems, new_key, i) ==
    IF elems = <<>> THEN <<>>
    ELSE <<<<new_key \o "_" \o str(i), elems[1][2]>>>>
         \o list_items_no_skip(Tail(elems), new_key, i + 1)

\* lines 119-123: the scalar elements of a list, under <new_key>_<index>
RECURSIVE list_items(_, _, _)
list_items(elems, new_key, i) ==
    IF elems = <<>> THEN <<>>
    ELSE LET item == elems[1][2]
             rest == list_items(Tail(elems), new_key, i + 1)
         IN  IF item.tag \in {"dict", "list"}
             THEN rest
             ELSE <<<<new_key \o "_" \o str(i), item>>>> \o rest

RECURSIVE flatten_dict(_, _)
RECURSIVE flatten_items(_, _)
\* lines 112-125: the loop over d.items()
flatten_items(kids, parent_key) ==
    IF kids = <<>> THEN <<>>
    ELSE LET k == kids[1][1]
             v == kids[1][2]
             new_key == IF parent_key # "" THEN parent_key \o "_" \o k ELSE k
             here == CASE v.tag = "dict" -> flatten_dict(v, new_key)
                       [] v.tag = "list" -> list_items(v.kids, new_key, 0)
                       [] OTHER -> <<<<new_key, v>>>>
         IN  here \o flatten_items(Tail(kids), parent_key)

flatten_dict(node, parent_key) == dict_of(<<>>, flatten_items(node.kids, parent_key))

(***************************************************************************)
(* pandas.  A cell is a string, a number or NaN (missing).  A DataFrame    *)
(* is [columns, rows]: the column labels in order (duplicates possible)    *)
(* and the rows in order, each [idx, cells] with its index label and one   *)
(* cell per column.                                                        *)
(***************************************************************************)
Str(s) == [t |-> "str", s |-> s, n |-> 0]
Num(n) == [t |-> "num", s |-> "", n |-> n]
NaN == [t |-> "nan", s |-> "", n |-> 0]

Ok(df) == [kind |-> "ok", df |-> df]
Raise(kind, df) == [kind |-> kind, df |-> df]

Indices(n) == [j \in 1..n |-> j]

\* the positions of the columns labelled name, in order
Positions(columns, name) ==
    SelectSeq(Indices(Len(columns)), LAMBDA j : columns[j] = name)

\* the frame restricted to the columns at the positions pos, in that order
TakeColumns(df, pos) ==
    [columns |-> [k \in 1..Len(pos) |-> df.columns[pos[k]]],
     rows |-> [i \in 1..Len(df.rows) |->
                  [idx |-> df.rows[i].idx,
                   cells |-> [k \in 1..Len(pos) |-> df.rows[i].cells[pos[k]]]]]]

\* df[names]: for each label of the list, every column that carries it
RECURSIVE PositionsOfAll(_, _)
PositionsOfAll(columns, names) ==
    IF names = <<>> THEN <<>>
    ELSE Positions(columns, names[1]) \o PositionsOfAll(columns, Tail(names))

df_getitem(df, names) == TakeColumns(df, PositionsOfAll(df.columns, names))

\* df.drop(columns=names)
df_drop(df, names) ==
    TakeColumns(df, SelectSeq(Indices(Len(df.columns)),
                              LAMBDA j : df.columns[j] \notin names))

\* df[name] = series: every column labelled name is set; a new label is
\* appended as the last column
df_setitem(df, name, series) ==
    IF Positions(df.columns, name) = <<>>
    THEN [columns |-> Append(df.columns, name),
          rows |-> [i \in 1..Len(df.rows) |->
                       [idx |-> df.rows[i].idx,
                        cells |-> Append(df.rows[i].cells, series[i])]]]
    ELSE [columns |-> df.columns,
          rows |-> [i \in 1..Len(df.rows) |->
                       [idx |-> df.rows[i].idx,
                        cells |-> [j \in 1..Len(df.columns) |->
                                      IF df.columns[j] = name THEN series[i]
                                      ELSE df.rows[i].cells[j]]]]]

\* pd.DataFrame(all_items): the union of the keys in first-seen order, NaN
\* where a record lacks the key
RECURSIVE AppendNew(_, _)
AppendNew(acc, keys) ==
    IF keys = <<>> THEN acc
    ELSE AppendNew(IF \E i \in 1..Len(acc) : acc[i] = keys[1][1]
                   THEN acc ELSE Append(acc, keys[1][1]),
                   Tail(keys))

RECURSIVE UnionKeys(_, _)
UnionKeys(acc, records) ==
    IF records = <<>> THEN acc
    ELSE UnionKeys(AppendNew(acc, records[1]), Tail(records))

Lookup(record, key) ==
    IF \E i \in 1..Len(record) : record[i][1] = key
    THEN record[CHOOSE i \in 1..Len(record) : record[i][1] = key][2]
    ELSE NaN

DataFrame(records) ==
    LET columns == UnionKeys(<<>>, records)
    IN  [columns |-> columns,
         rows |-> [i \in 1..Len(records) |->
                      [idx |-> i - 1,
                       cells |-> [j \in 1..Len(columns) |->
                                     Lookup(records[i], columns[j])]]]]

\* pd.to_numeric(series, errors='ignore') on strings of decimal digits,
\* numbers and NaN: when a value does not parse the input is returned
IsNumericStr(s) == Len(s) > 0 /\ \A i \in 1..Len(s) : IsDigit(Char(s, i))

DigitValue(c) == (CHOOSE i \in 1..10 : Digits[i] = c) - 1

RECURSIVE ParseNat(_)
ParseNat(s) ==
    IF Len(s) = 0 THEN 0
    ELSE ParseNat(SubSeq(s, 1, Len(s) - 1)) * 10 + DigitValue(Char(s, Len(s)))

Parses(c) == c.t \in {"num", "nan"} \/ (c.t = "str" /\ IsNumericStr(c.s))

ToNumber(c) == IF c.t = "str" THEN Num(ParseNat(c.s)) ELSE c

to_numeric_ignore(series) ==
    IF \A i \in 1..Len(series) : Parses(series[i])
    THEN [i \in 1..Len(series) |-> ToNumber(series[i])]
    ELSE series

(***************************************************************************)
(* scraper.py: organize_columns, clean_tag_columns, process_menu_data      *)
(***************************************************************************)
priority_cols ==
    <<"category", "item_name", "price", "desc", "dietary_slugs",
      "rating_value", "rating_total_rating_text", "item_state",
      "tag_slugs", "service_slugs">>

numeric_cols ==
    <<"price", "rating_value", "min_price", "max_price", "default_price",
      "display_price">>

cols_to_drop ==
    {"fb_slug", "name_slug", "item_metadata", "tracking_dish_type",
     "item_tag_image", "tag_images", "tag_texts", "tag_objects"}

\* the keys of tag_patterns, in the order of the dict
tag_patterns == <<"tag_slugs", "service_slugs", "dietary_slugs">>

\* organize_columns with the priority columns taken in the order of the frame
organize_columns_frame_order(df) ==
    LET existing_priority_cols ==
            SelectSeq(df.columns,
                      LAMBDA c : \E k \in 1..Len(priority_cols) : priority_cols[k] = c)
        other_cols ==
            SelectSeq(df.columns,
                      LAMBDA c : \A k \in 1..Len(existing_priority_cols) :
                                    existing_priority_cols[k] # c)
    IN  df_getitem(df, existing_priority_cols \o other_cols)

organize_columns(df) ==
    LET existing_priority_cols ==
            SelectSeq(priority_cols,
                      LAMBDA c : \E j \in 1..Len(df.columns) : df.columns[j] = c)
        other_cols ==
            SelectSeq(df.columns,
                      LAMBDA c : \A k \in 1..Len(existing_priority_cols) :
                                    existing_priority_cols[k] # c)
    IN  df_getitem(df, existing_priority_cols \o other_cols)

\* re.match(r'<group>_\d+', c): the pattern matches a prefix of c
re_match_indexed(group, c) ==
    LET p == group \o "_"
    IN  /\ Len(c) > Len(p)
        /\ SubSeq(c, 1, Len(p)) = p
        /\ IsDigit(Char(c, Len(p) + 1))

\* ', '.join(filter(None, x.dropna())) on the cells of one row
RECURSIVE join_cells(_)
join_cells(cells) ==
    LET kept == SelectSeq(cells, LAMBDA c : c.t = "str" /\ c.s # "")
    IN  IF kept = <<>> THEN ""
        ELSE IF Len(kept) = 1 THEN kept[1].s
        ELSE kept[1].s \o ", " \o join_cells(Tail(kept))

\* str.join raises a TypeError on an element that is not a string; filter(None)
\* has removed the zeros
Joinable(cells) == \A i \in 1..Len(cells) : cells[i].t = "num" => cells[i].n = 0

\* lines 46-54, from the k-th pattern on
RECURSIVE clean_tag_columns_from(_, _)
clean_tag_columns_from(df, k) ==
    IF k > Len(tag_patterns) THEN Ok(df)
    ELSE LET new_col == tag_patterns[k]
             matching_cols == SelectSeq(df.columns,
                                        LAMBDA c : re_match_indexed(new_col, c))
             selected == df_getitem(df, matching_cols)
         IN  IF matching_cols = <<>> THEN clean_tag_columns_from(df, k + 1)
             ELSE IF \E i \in 1..Len(selected.rows) : ~Joinable(selected.rows[i].cells)
             THEN Raise("TypeError", df)
             ELSE clean_tag_columns_from(
                      df_drop(df_setitem(df, new_col,
                                         [i \in 1..Len(selected.rows) |->
                                             Str(join_cells(selected.rows[i].cells))]),
                              {matching_cols[j] : j \in 1..Len(matching_cols)}),
                      k + 1)

clean_tag_columns(df) == clean_tag_columns_from(df, 1)

\* lines 135-138, from the k-th numeric column on: df[col] of a label that
\* two columns carry is a DataFrame, on which pd.to_numeric raises
RECURSIVE convert_numeric_from(_, _)
convert_numeric_from(df, k) ==
    IF k > Len(numeric_cols) THEN Ok(df)
    ELSE LET pos == Positions(df.columns, numeric_cols[k])
         IN  IF pos = <<>> THEN convert_numeric_from(df, k + 1)
             ELSE IF Len(pos) > 1 THEN Raise("TypeError", df)
             ELSE convert_numeric_from(
                      df_setitem(df, numeric_cols[k],
                                 to_numeric_ignore(
                                     [i \in 1..Len(df.rows) |->
                                         df.rows[i].cells[pos[1]]])),
                      k + 1)

\* df.loc[:, ~df.columns.duplicated()]: the first column of every label
drop_duplicated(df) ==
    TakeColumns(df, SelectSeq(Indices(Len(df.columns)),
                              LAMBDA j : \A i \in 1..(j - 1) :
                                            df.columns[i] # df.columns[j]))

\* the order of two characters, that of their code points
Alphabet ==
    <<" ", ",", "/", "0", "1", "2", "3", "4", "5", "6", "7", "8", "9",
      "A", "B", "C", "D", "E", "F", "G", "H", "I", "J", "K", "L", "M",
      "N", "O", "P", "Q", "R", "S", "T", "U", "V", "W", "X", "Y", "Z", "_",
      "a", "b", "c", "d", "e", "f", "g", "h", "i", "j", "k", "l", "m",
      "n", "o", "p", "q", "r", "s", "t", "u", "v", "w", "x", "y", "z">>

Ord(c) == CHOOSE i \in 1..Len(Alphabet) : Alphabet[i] = c

RECURSIVE StrLess(_, _)
StrLess(a, b) ==
    IF Len(b) = 0 THEN FALSE
    ELSE IF Len(a) = 0 THEN TRUE
    ELSE IF Char(a, 1) = Char(b, 1) THEN StrLess(Tail(a), Tail(b))
    ELSE Ord(Char(a, 1)) < Ord(Char(b, 1))

\* the order of two cells of a sort key: NaN last (na_position='last')
CellLess(a, b) ==
    CASE a.t = "nan" -> FALSE
      [] b.t = "nan" -> TRUE
      [] a.t = "num" /\ b.t = "num" -> a.n < b.n
      [] OTHER -> StrLess(a.s, b.s)

\* a stable sort of the rows by the cells at the positions by
RowLess(r1, r2, by) ==
    \E k \in 1..Len(by) :
        /\ CellLess(r1.cells[by[k]], r2.cells[by[k]])
        /\ \A m \in 1..(k - 1) :
              /\ ~CellLess(r1.cells[by[m]], r2.cells[by[m]])
              /\ ~CellLess(r2.cells[by[m]], r1.cells[by[m]])

RECURSIVE InsertRow(_, _, _)
InsertRow(sorted, r, by) ==
    IF sorted = <<>> THEN <<r>>
    ELSE IF RowLess(r, sorted[Len(sorted)], by)
         THEN Append(InsertRow(SubSeq(sorted, 1, Len(sorted) - 1), r, by),
                     sorted[Len(sorted)])
         ELSE Append(sorted, r)

RECURSIVE StableSort(_, _, _)
StableSort(rows, n, by) ==
    IF n = 0 THEN <<>>
    ELSE InsertRow(StableSort(rows, n - 1, by), rows[n], by)

\* sort_values that sorts by the labels that are columns and skips the rest
sort_values_present(df, by) ==
    LET present == SelectSeq(by, LAMBDA c : Positions(df.columns, c) # <<>>)
    IN  Ok([columns |-> df.columns,
            rows |-> StableSort(df.rows, Len(df.rows),
                                [k \in 1..Len(present) |->
                                    Positions(df.columns, present[k])[1]])])

\* df.sort_values(by): a KeyError on a label that is no column
sort_values(df, by) ==
    IF \E k \in 1..Len(by) : Positions(df.columns, by[k]) = <<>>
    THEN Raise("KeyError", df)
    ELSE Ok([columns |-> df.columns,
             rows |-> StableSort(df.rows, Len(df.rows),
                                 [k \in 1..Len(by) |->
                                     Positions(df.columns, by[k])[1]])])

EmptyFrame == [columns |-> <<>>, rows |-> <<>>]

\* the outcome of process_menu_data(df): kind is "ok" or the exception
\* raised, df the frame returned (or the frame at the raise), deduplicated
\* and organized the frame after lines 144 and 147
process_menu_data(df) ==
    LET renamed == [columns |-> [j \in 1..Len(df.columns) |->
                                    clean_column_name(df.columns[j])],
                    rows |-> df.rows]
        converted == convert_numeric_from(renamed, 1)
        combined == IF converted.kind = "ok"
                    THEN clean_tag_columns(converted.df) ELSE converted
        deduplicated == drop_duplicated(combined.df)
        organized == organize_columns(deduplicated)
        pruned == df_drop(organized, cols_to_drop)
        sorted == sort_values(pruned, <<"category", "price">>)
    IN  IF combined.kind # "ok"
        THEN [kind |-> combined.kind, df |-> combined.df,
              deduplicated |-> EmptyFrame, organized |-> EmptyFrame]
        ELSE [kind |-> sorted.kind, df |-> sorted.df,
              deduplicated |-> deduplicated, organized |-> organized]

(***************************************************************************)
(* The inputs.                                                             *)
(***************************************************************************)
NameTokens == {"item_", "name", "price", "_3", "menu_", "12", "x"}

RECURSIVE NamesOf(_)
NamesOf(n) ==
    IF n = 0 THEN {""}
    ELSE LET shorter == NamesOf(n - 1)
         IN  shorter \cup {s \o t : s \in shorter, t \in NameTokens}

ColumnNames == NamesOf(MaxTokens)

ScalarValues == <<"x", "y">>
KeyPool == <<"a", "b", "a_b", "a_0", "">>

\* every Op(a, b) for a in the sequence A and b in the sequence B
Pairs(A, B, Op(_, _)) ==
    [i \in 1..(Len(A) * Len(B)) |->
        Op(A[((i - 1) \div Len(B)) + 1], B[((i - 1) % Len(B)) + 1])]

RECURSIVE ConcatOver(_, _, _)
ConcatOver(F(_), lo, hi) == IF lo > hi THEN <<>> ELSE F(lo) \o ConcatOver(F, lo + 1, hi)

Wrap(S, Op(_)) == [i \in 1..Len(S) |-> Op(S[i])]

\* the nodes, the element lists and the dict entry lists of exactly n nodes
\* in total, from those of fewer nodes (prev[m + 1] holds those of m nodes)
GenLevel(prev, n) ==
    LET nodesN == Wrap(prev[n].entries, Dict) \o Wrap(prev[n].lists, List)
                  \o (IF n = 1 THEN Wrap(ScalarValues, Scalar) ELSE <<>>)
        nodesOf(k) == IF k = n THEN nodesN ELSE prev[k + 1].nodes
        listsN == ConcatOver(
                      LAMBDA k : Pairs(nodesOf(k), prev[n - k + 1].lists,
                                       LAMBDA h, t : <<<<"", h>>>> \o t),
                      1, n)
        entriesOf(key) ==
            ConcatOver(
                LAMBDA k : Pairs(nodesOf(k),
                                 SelectSeq(prev[n - k + 1].entries,
                                           LAMBDA u : key \notin KeysOf(u)),
                                 LAMBDA h, t : <<<<key, h>>>> \o t),
                1, n)
        entriesN == ConcatOver(LAMBDA j : entriesOf(KeyPool[j]), 1, Len(KeyPool))
    IN  [nodes |-> nodesN, lists |-> listsN, entries |-> entriesN]

RECURSIVE GenUpTo(_, _)
GenUpTo(prev, n) ==
    IF Len(prev) > n THEN prev
    ELSE GenUpTo(Append(prev, GenLevel(prev, Len(prev))), n)

Gen == GenUpTo(<<[nodes |-> <<>>, lists |-> <<<<>>>>, entries |-> <<<<>>>>]>>, MaxNodes - 1)

\* Gen[m + 1] holds the entry lists of m nodes: the records of m + 1 nodes
AllEntries == ConcatOver(LAMBDA m : Gen[m].entries, 1, MaxNodes)

NestedRecords == {Dict(AllEntries[i]) : i \in 1..Len(AllEntries)}

Absent == "-"

\* the shapes of a batch: the keys of its records in order, each with the
\* values a record may hold under it (Absent: the record lacks the key)
Schemas ==
    {<< <<"category", {"Mains", "Starters"}>>,
        <<"price", {"80", "150", "N/A", Absent}>> >>,
     << <<"name", {"Soup"}>>,
        <<"item_price_3", {"199", "N/A"}>>,
        <<"category", {"Mains", "Starters"}>> >>,
     << <<"category", {"Mains"}>>,
        <<"price", {"80"}>>,
        <<"tag_slugs_0", {"veg"}>>,
        <<"tag_slugs_1", {"spicy", Absent}>>,
        <<"tag_slugs_2", {"", Absent}>> >>,
     << <<"category", {"Mains"}>>,
        <<"price", {"80", Absent}>>,
        <<"tag_slugs_0_0", {"veg", ""}>>,
        <<"tag_slugs_1_0", {"spicy", Absent}>> >>,
     << <<"category", {"Mains"}>>,
        <<"price", {"80", "150"}>>,
        <<"item_price", {"80", Absent}>> >>,
     << <<"fb_slug", {"f"}>>,
        <<"id_0", {"p"}>>,
        <<"desc", {"d", Absent}>>,
        <<"price", {"80"}>>,
        <<"menu_item_id", {"m"}>>,
        <<"category", {"Mains", "Starters"}>>,
        <<"id_1", {"q", Absent}>> >>,
     << <<"name", {"Soup"}>>,
        <<"price", {"80", "N/A"}>> >>,
     << <<"category", {"Mains"}>>,
        <<"name", {"Soup"}>> >>}

\* the flat records of a shape, from its j-th key on
RECURSIVE FlatRecordsFrom(_, _)
FlatRecordsFrom(schema, j) ==
    IF j > Len(schema) THEN {<<>>}
    ELSE {(IF v = Absent THEN <<>> ELSE <<<<schema[j][1], Str(v)>>>>) \o rest :
             v \in schema[j][2], rest \in FlatRecordsFrom(schema, j + 1)}

FlatRecords(schema) == FlatRecordsFrom(schema, 1)

NotReturned == [done |-> FALSE, val |-> <<>>]
Returned(v) == [done |-> TRUE, val |-> v]

(***************************************************************************)
(* scrape_area_restaurants.py: ZomatoScraper                               *)
(*                                                                         *)
(* The outcome of one request is "raised" (requests.post or response.json  *)
(* raised), "no_sections" (the JSON lacks sections/SECTION_SEARCH_RESULT)  *)
(* or "results" with the entries of SECTION_SEARCH_RESULT.  An entry is a  *)
(* restaurant, an entry of another type, or a malformed entry, on which    *)
(* the loop body raises (a KeyError).  A collected record carries the page *)
(* it was read on.                                                         *)
(***************************************************************************)
PageSize == 15

\* _create_payload with the offset of the page after
create_payload_next_offset(p) ==
    [page |-> p,
     total_restaurants_shown |-> p * PageSize,
     total_results_shown |-> p * PageSize,
     solr_offset |-> p * PageSize]

\* _create_payload(page): the fields of postbackParams that depend on page
create_payload(p) ==
    [page |-> p,
     total_restaurants_shown |-> (p - 1) * PageSize,
     total_results_shown |-> (p - 1) * PageSize,
     solr_offset |-> (p - 1) * PageSize]

Entries == {"restaurant", "other", "malformed"}

Responses ==
    {[kind |-> "raised", entries |-> <<>>],
     [kind |-> "no_sections", entries |-> <<>>]}
    \cup {[kind |-> "results", entries |-> e] :
             e \in UNION {[1..n -> Entries] : n \in 0..MaxResults}}

NoResponse == [kind |-> "none", entries |-> <<>>]

\* lines 164-174: the records appended before the loop over the entries
\* ends or raises
RECURSIVE collect(_, _, _, _)
collect(acc, entries, k, p) ==
    IF k > Len(entries) THEN [all |-> acc, raised |-> FALSE]
    ELSE IF entries[k] = "malformed" THEN [all |-> acc, raised |-> TRUE]
    ELSE IF entries[k] = "restaurant"
         THEN collect(Append(acc, [page |-> p, position |-> k]), entries, k + 1, p)
         ELSE collect(acc, entries, k + 1, p)

\* lines 179-181: the handler of an exception raised in the body prints and
\* breaks, so the function returns what it has
on_exception(all) == [pc |-> "returned", ret |-> [done |-> TRUE, val |-> all]]

\* lines 138-181: the body of the loop on the page p, given the outcome of
\* its request
loop_body(all, p, resp) ==
    LET got == collect(all, resp.entries, 1, p)
    IN  CASE resp.kind = "raised" ->
                [all |-> all] @@ on_exception(all)
          [] resp.kind = "no_sections" ->
                [all |-> all, pc |-> "returned",
                 ret |-> [done |-> TRUE, val |-> all]]
          [] got.raised ->
                [all |-> got.all] @@ on_exception(got.all)
          [] OTHER ->
                [all |-> got.all, pc |-> "loop",
                 ret |-> [done |-> FALSE, val |-> <<>>]]

ScrapeIdle ==
    /\ max_pages = 0
    /\ page = 0
    /\ response = NoResponse
    /\ requests = <<>>
    /\ all_restaurants = <<>>
    /\ pc = "returned"
    /\ ret_scrape = [done |-> TRUE, val |-> <<>>]

MenuIdle ==
    /\ col = ""
    /\ ret_col = [done |-> FALSE, val |-> ""]
    /\ d = Dict(<<>>)
    /\ ret_flat = [done |-> FALSE, val |-> <<>>]
    /\ batch = <<>>
    /\ ret_menu = [done |-> FALSE, val |-> <<>>]

InitScrape ==
    /\ max_pages \in 0..MaxPages
    /\ page = 0
    /\ response = NoResponse
    /\ requests = <<>>
    /\ all_restaurants = <<>>
    /\ pc = "loop"
    /\ ret_scrape = [done |-> FALSE, val |-> <<>>]
    /\ MenuIdle

\* one iteration of the loop: the next page is requested and handled
RequestPage ==
    /\ pc = "loop"
    /\ page < max_pages
    /\ \E resp \in Responses :
          LET next == loop_body(all_restaurants, page + 1, resp)
          IN  /\ page' = page + 1
              /\ requests' = Append(requests, create_payload(page + 1))
              /\ response' = resp
              /\ all_restaurants' = next.all
              /\ pc' = next.pc
              /\ ret_scrape' = next.ret
    /\ UNCHANGED <<max_pages, menu_vars>>

\* the range is exhausted: line 183
ReturnAll ==
    /\ pc = "loop"
    /\ page >= max_pages
    /\ pc' = "returned"
    /\ ret_scrape' = [done |-> TRUE, val |-> all_restaurants]
    /\ UNCHANGED <<max_pages, page, response, requests, all_restaurants, menu_vars>>

NextScrape == RequestPage \/ ReturnAll

SpecScrape == InitScrape /\ [][NextScrape]_vars

\* every request returns or raises, and the loop goes on
SpecScrapeFair == SpecScrape /\ WF_vars(NextScrape)

(***************************************************************************)
(* The renaming of one column name.                                        *)
(***************************************************************************)
InitRename ==
    /\ ScrapeIdle
    /\ col \in ColumnNames
    /\ ret_col = [done |-> FALSE, val |-> ""]
    /\ d = Dict(<<>>)
    /\ ret_flat = NotReturned
    /\ batch = <<>>
    /\ ret_menu = NotReturned

CleanColumnName ==
    /\ ~ret_col.done
    /\ ret_col' = [done |-> TRUE, val |-> clean_column_name(col)]
    /\ UNCHANGED <<col, d, ret_flat, batch, ret_menu, scrape_vars>>

NextRename == CleanColumnName

SpecRename == InitRename /\ [][NextRename]_vars

(***************************************************************************)
(* The flattening of one nested record.                                    *)
(***************************************************************************)
InitFlatten ==
    /\ ScrapeIdle
    /\ d \in NestedRecords
    /\ ret_flat = NotReturned
    /\ col = ""
    /\ ret_col = [done |-> FALSE, val |-> ""]
    /\ batch = <<>>
    /\ ret_menu = NotReturned

FlattenDict ==
    /\ ~ret_flat.done
    /\ ret_flat' = Returned(flatten_dict(d, ""))
    /\ UNCHANGED <<col, ret_col, d, batch, ret_menu, scrape_vars>>

NextFlatten == FlattenDict

SpecFlatten == InitFlatten /\ [][NextFlatten]_vars

(***************************************************************************)
(* save_menu, lines 164-168: the DataFrame of a batch is processed.        *)
(***************************************************************************)
InitMenu ==
    /\ ScrapeIdle
    /\ \E schema \in Schemas : \E n \in 0..MaxRows :
          batch \in [1..n -> FlatRecords(schema)]
    /\ ret_menu = NotReturned
    /\ col = ""
    /\ ret_col = [done |-> FALSE, val |-> ""]
    /\ d = Dict(<<>>)
    /\ ret_flat = NotReturned

ProcessMenuData ==
    /\ ~ret_menu.done
    /\ ret_menu' = Returned(process_menu_data(DataFrame(batch)))
    /\ UNCHANGED <<col, ret_col, d, ret_flat, batch, scrape_vars>>

NextMenu == ProcessMenuData

SpecMenu == InitMenu /\ [][NextMenu]_vars

(***************************************************************************)
(* The renaming the specification describes (section 4.2, step 2): strip   *)
(* one trailing _<digits>, strip item_ where it is a prefix, and rename    *)
(* the column whose original name is exactly name.                         *)
(***************************************************************************)
strip_prefix(s, p) ==
    IF Len(s) >= Len(p) /\ SubSeq(s, 1, Len(p)) = p
    THEN SubSeq(s, Len(p) + 1, Len(s))
    ELSE s

spec_rename(c) ==
    IF c = "name" THEN "item_name"
    ELSE strip_prefix(re_sub_numeric_suffix(c), "item_")

\* C4: clean_column_name agrees with the rename function of the
\* specification for every column name: one trailing _<digits> stripped,
\* item_ stripped only as a prefix, item_name only for the original name.
C4_AgreesWithSpecRename ==
    ret_col.done => ret_col.val = spec_rename(col)

(***************************************************************************)
(* The scalar leaves of a nested record, each with its path from the root  *)
(* (mapping keys and list indices) and with thru = TRUE when the path goes *)
(* through a list element that is a mapping or a list.                     *)
(***************************************************************************)
RECURSIVE LeavesOf(_, _, _)
LeavesOf(node, path, thru) ==
    CASE node.tag = "scalar" -> {[path |-> path, node |-> node, thru |-> thru]}
      [] node.tag = "dict" ->
            UNION {LeavesOf(node.kids[i][2], Append(path, node.kids[i][1]), thru) :
                     i \in 1..Len(node.kids)}
      [] node.tag = "list" ->
            UNION {LeavesOf(node.kids[i][2], Append(path, str(i - 1)),
                            thru \/ node.kids[i][2].tag \in {"dict", "list"}) :
                     i \in 1..Len(node.kids)}

Leaves(rec) == LeavesOf(rec, <<>>, FALSE)

\* "_".join(path)
RECURSIVE JoinPath(_)
JoinPath(path) ==
    IF path = <<>> THEN ""
    ELSE IF Len(path) = 1 THEN path[1]
    ELSE path[1] \o "_" \o JoinPath(Tail(path))

RECURSIVE HasCompositeInList(_)
HasCompositeInList(node) ==
    \/ /\ node.tag = "list"
       /\ \E i \in 1..Len(node.kids) : node.kids[i][2].tag \in {"dict", "list"}
    \/ \E i \in 1..Len(node.kids) : HasCompositeInList(node.kids[i][2])

RECURSIVE HasEmptyKey(_)
HasEmptyKey(node) ==
    \/ /\ node.tag = "dict"
       /\ \E i \in 1..Len(node.kids) : node.kids[i][1] = ""
    \/ \E i \in 1..Len(node.kids) : HasEmptyKey(node.kids[i][2])

DistinctLeafKeys(rec) ==
    \A l1, l2 \in Leaves(rec) :
        JoinPath(l1.path) = JoinPath(l2.path) => l1 = l2

PairsOf(flat) == {flat[i] : i \in 1..Len(flat)}

OneKeyPerLeaf(rec, flat) ==
    /\ Len(flat) = Cardinality(Leaves(rec))
    /\ \A l \in Leaves(rec) : <<JoinPath(l.path), l.node>> \in PairsOf(flat)

\* C1 as claimed: for every nested record in which no list holds a mapping
\* or a list, the flat record has exactly one key per scalar leaf, the
\* underscore-join of the leaf's path, with the leaf's value.
C1_OneKeyPerLeaf ==
    (ret_flat.done /\ ~HasCompositeInList(d)) => OneKeyPerLeaf(d, ret_flat.val)

\* C1 as amended: the same, for the records in which moreover no mapping
\* key is empty and no two scalar leaves have the same underscore-joined
\* path.
C1_OneKeyPerLeafDistinct ==
    (/\ ret_flat.done
     /\ ~HasCompositeInList(d)
     /\ ~HasEmptyKey(d)
     /\ DistinctLeafKeys(d)) => OneKeyPerLeaf(d, ret_flat.val)

\* a record with a leaf under a nested mapping and a leaf at the top
C1_Witness ==
    /\ ret_flat.done
    /\ ~HasCompositeInList(d) /\ ~HasEmptyKey(d) /\ DistinctLeafKeys(d)
    /\ \E l1, l2 \in Leaves(d) :
          /\ l1.path = <<"a", "b">>
          /\ l2.path = <<"b">>
    /\ Len(ret_flat.val) = 2

\* the record with every composite list element replaced by an empty mapping
RECURSIVE Prune(_)
Prune(node) ==
    CASE node.tag = "scalar" -> node
      [] node.tag = "dict" ->
            Dict([i \in 1..Len(node.kids) |->
                     <<node.kids[i][1], Prune(node.kids[i][2])>>])
      [] node.tag = "list" ->
            List([i \in 1..Len(node.kids) |->
                     IF node.kids[i][2].tag \in {"dict", "list"}
                     THEN <<"", Dict(<<>>)>>
                     ELSE node.kids[i]])

\* C2: a list element that is a mapping or a list contributes no key, the
\* scalar elements of the same list keep their keys <path>_<index>, and
\* every value of the flat record is a scalar.
C2_CompositeElementsVanish ==
    ret_flat.done =>
        /\ \A i \in 1..Len(ret_flat.val) : ret_flat.val[i][2].tag = "scalar"
        /\ ret_flat.val = flatten_dict(Prune(d), "")
        /\ ~HasEmptyKey(d) =>
              KeysOf(ret_flat.val) = {JoinPath(l.path) : l \in {m \in Leaves(d) : ~m.thru}}

\* a list whose first element is a mapping and whose second is a scalar,
\* emitted under index 1
C2_Witness ==
    /\ ret_flat.done
    /\ \E i \in 1..Len(d.kids) :
          /\ d.kids[i][1] = "a"
          /\ d.kids[i][2].tag = "list"
          /\ Len(d.kids[i][2].kids) = 2
          /\ d.kids[i][2].kids[1][2].tag = "dict"
          /\ d.kids[i][2].kids[2][2].tag = "scalar"
    /\ "a_1" \in KeysOf(ret_flat.val)

(***************************************************************************)
(* The batch and the table of a call, for the statements below.            *)
(***************************************************************************)
RawColumns == UnionKeys(<<>>, batch)

RawNamed(name) == SelectSeq(RawColumns, LAMBDA c : clean_column_name(c) = name)

HasSortColumns == RawNamed("category") # <<>> /\ RawNamed("price") # <<>>

Table == ret_menu.val.df

TableReturned == ret_menu.done /\ ret_menu.val.kind = "ok"

\* the cell of the row labelled idx under the first column labelled name
CellAt(df, idx, name) ==
    LET i == CHOOSE k \in 1..Len(df.rows) : df.rows[k].idx = idx
    IN  df.rows[i].cells[Positions(df.columns, name)[1]]

\* <group>_<digits>
IsIndexedColumn(group, c) ==
    LET p == group \o "_"
    IN  /\ Len(c) > Len(p)
        /\ SubSeq(c, 1, Len(p)) = p
        /\ IsNumericStr(SubSeq(c, Len(p) + 1, Len(c)))

\* C3: for each of tag_slugs, service_slugs and dietary_slugs, when the
\* batch has raw columns <group>_<digits>, the table has a single column
\* <group> holding, per row, the ', '-join of the non-empty, non-missing
\* values of those raw columns in column order, and no indexed column of
\* the group remains.
C3_IndexedGroupsCollapse ==
    TableReturned =>
        \A g \in {tag_patterns[k] : k \in 1..Len(tag_patterns)} :
            LET raw == SelectSeq(RawColumns, LAMBDA c : IsIndexedColumn(g, c))
            IN  raw # <<>> =>
                  /\ Len(Positions(Table.columns, g)) = 1
                  /\ \A j \in 1..Len(Table.columns) :
                        ~IsIndexedColumn(g, Table.columns[j])
                  /\ \A i \in 1..Len(batch) :
                        CellAt(Table, i - 1, g) =
                            Str(join_cells([k \in 1..Len(raw) |->
                                               Lookup(batch[i], raw[k])]))

\* C5: for every non-empty batch in which two raw columns are renamed to
\* the same name, the call returns a table with pairwise distinct column
\* names that keeps, for a duplicated name, the values of the first raw
\* column.
C5_DuplicatesCollapse ==
    (/\ ret_menu.done
     /\ batch # <<>>
     /\ HasSortColumns
     /\ \E i, j \in 1..Len(RawColumns) :
           i # j /\ clean_column_name(RawColumns[i]) = clean_column_name(RawColumns[j]))
    => /\ ret_menu.val.kind = "ok"
       /\ \A i, j \in 1..Len(Table.columns) :
             Table.columns[i] = Table.columns[j] => i = j
       /\ \A j \in 1..Len(Table.columns) : \A i \in 1..Len(batch) :
             LET first == Lookup(batch[i], RawNamed(Table.columns[j])[1])
             IN  Len(RawNamed(Table.columns[j])) > 1 =>
                    CellAt(Table, i - 1, Table.columns[j]) \in {first, ToNumber(first)}

\* C6: the numeric coercion is per value: in each numeric column a value
\* that parses becomes the number and a value that does not is left as it
\* was, also when both occur in one column; no error, no row dropped.
C6_PerValueCoercion ==
    (/\ ret_menu.done
     /\ HasSortColumns
     /\ \A k \in 1..Len(numeric_cols) : Len(RawNamed(numeric_cols[k])) <= 1)
    => /\ ret_menu.val.kind = "ok"
       /\ Len(Table.rows) = Len(batch)
       /\ \A k \in 1..Len(numeric_cols) : \A i \in 1..Len(batch) :
             RawNamed(numeric_cols[k]) # <<>> =>
                LET raw == Lookup(batch[i], RawNamed(numeric_cols[k])[1])
                IN  CellAt(Table, i - 1, numeric_cols[k]) =
                        IF Parses(raw) THEN ToNumber(raw) ELSE raw

\* the number a price cell stands for, where it stands for one
IsNumber(c) == c.t = "num" \/ (c.t = "str" /\ IsNumericStr(c.s))

\* C7: the rows of the table are a permutation of the input rows, ordered
\* by category ascending and, within a category, by the numeric value of
\* price ascending.
C7_RowsSorted ==
    TableReturned =>
        /\ Len(Table.rows) = Len(batch)
        /\ {Table.rows[i].idx : i \in 1..Len(Table.rows)} = 0..(Len(batch) - 1)
        /\ \A a, b \in 1..Len(Table.rows) :
              a < b =>
                 LET ra == Table.rows[a].idx
                     rb == Table.rows[b].idx
                     ca == CellAt(Table, ra, "category")
                     cb == CellAt(Table, rb, "category")
                     pa == CellAt(Table, ra, "price")
                     pb == CellAt(Table, rb, "price")
                 IN  /\ ~CellLess(cb, ca)
                     /\ (ca = cb /\ IsNumber(pa) /\ IsNumber(pb)) =>
                           ToNumber(pa).n <= ToNumber(pb).n

\* C8: on an empty batch, or on a batch without a category or without a
\* price column, the call ends in an error and returns no table.
C8_MissingInputsRaise ==
    (ret_menu.done /\ (batch = <<>> \/ ~HasSortColumns)) => ret_menu.val.kind # "ok"

\* the call on the empty batch has raised
C8_Witness ==
    /\ ret_menu.done
    /\ batch = <<>>
    /\ ret_menu.val.kind = "KeyError"

Rank(name) == CHOOSE k \in 1..Len(priority_cols) : priority_cols[k] = name

IsPriority(name) == \E k \in 1..Len(priority_cols) : priority_cols[k] = name

\* C9: in the table the columns of the priority list come first, in the
\* order of the list, then the other columns in the order they had before;
\* organize_columns neither adds, removes nor duplicates a column.
C9_PriorityColumnsFirst ==
    TableReturned =>
        LET cols == Table.columns
            before == ret_menu.val.deduplicated
            after == ret_menu.val.organized
        IN  /\ \A i, j \in 1..Len(cols) :
                  (i < j /\ IsPriority(cols[j])) =>
                      IsPriority(cols[i]) /\ Rank(cols[i]) < Rank(cols[j])
            /\ \A i, j \in 1..Len(cols) :
                  (i < j /\ ~IsPriority(cols[i]) /\ ~IsPriority(cols[j])) =>
                      Positions(before.columns, cols[i])[1]
                          < Positions(before.columns, cols[j])[1]
            /\ Len(after.columns) = Len(before.columns)
            /\ \A j \in 1..Len(before.columns) :
                  Len(Positions(after.columns, before.columns[j])) = 1
            /\ \A i \in 1..Len(before.rows) : \A j \in 1..Len(before.columns) :
                  CellAt(after, before.rows[i].idx, before.columns[j])
                      = before.rows[i].cells[j]

\* a table of three priority columns, moved to the front, and two others
C9_Witness ==
    /\ TableReturned
    /\ ret_menu.val.deduplicated.columns
          = <<"fb_slug", "id", "desc", "price", "menu_id", "category">>
    /\ Table.columns = <<"category", "price", "desc", "id", "menu_id">>
    /\ Len(Table.rows) = 2

(***************************************************************************)
(* The paginated search.                                                   *)
(***************************************************************************)
Failed(resp) ==
    \/ resp.kind \in {"raised", "no_sections"}
    \/ \E k \in 1..Len(resp.entries) : resp.entries[k] = "malformed"

IsPrefix(s, t) == Len(s) <= Len(t) /\ SubSeq(t, 1, Len(s)) = s

ScrapeInvariant ==
    /\ Len(requests) <= max_pages
    /\ \A i \in 1..Len(requests) :
          /\ requests[i].page = i
          /\ requests[i].solr_offset = (i - 1) * 15
    /\ Failed(response) => pc = "returned"
    /\ pc \in {"loop", "returned"}
    /\ pc = "returned" => ret_scrape = [done |-> TRUE, val |-> all_restaurants]
    /\ \A i, j \in 1..Len(all_restaurants) :
          i < j => all_restaurants[i].page <= all_restaurants[j].page

ScrapeStep ==
    /\ pc = "returned" => UNCHANGED <<requests, all_restaurants, ret_scrape>>
    /\ Len(requests') <= Len(requests) + 1
    /\ IsPrefix(all_restaurants, all_restaurants')

====
